---- MODULE Spec2Model ----
(***************************************************************************)
(* Model of etl.py: the two-phase batch pipeline that reads the song       *)
(* catalog and the activity log, derives the songs, artists, users and     *)
(* time dimension tables and the songplays fact table, and overwrites the  *)
(* five parquet destinations.                                              *)
(*                                                                         *)
(* A DataFrame is a sequence of rows (records).  The order of a sequence   *)
(* carries no meaning except where the code sorts; every property below    *)
(* counts rows and never looks at positions.                               *)
(*                                                                         *)
(* Encodings forced by 32-bit integers:                                    *)
(*   - an epoch-millisecond ts is the pair <<seconds, millis>>, standing   *)
(*     for seconds * 1000 + millis;                                        *)
(*   - the 64-bit value of monotonically_increasing_id() is the pair       *)
(*     <<partition, offset>>, standing for partition * 2^33 + offset.      *)
(* Columns that every step copies unchanged and no join or dedup looks at  *)
(* (firstName, lastName, gender, sessionId, location, userAgent, artist    *)
(* location/latitude/longitude, num_songs) are left out; level stands for  *)
(* the non-key user columns and title for the non-key song columns.        *)
(***************************************************************************)
EXTENDS Integers, Sequences, FiniteSets, TLC

\* ------------------------------------------------------------------ bounds
MaxCat == 2          \* catalog records in the catalog source
MaxLog == 2          \* log records in the log source

\* ------------------------------------------------------- value domains
Null == "<null>"

IndexIn(seq, v) == CHOOSE i \in DOMAIN seq : seq[i] = v

SongIdSeq == <<"S1", "S2">>
ArtistIdSeq == <<"A1", "A2">>          \* in ascending string order
TitleSeq == <<"Song A", "Song B">>

\* 2018-11-02 01:25:34.796 UTC and 2018-12-01 00:10:00.123 UTC
Ts1 == <<1541121934, 796>>
Ts2 == <<1543623000, 123>>
TsSeq == <<Ts1, Ts2>>
UserIdSeq == <<8, 9>>
LevelSeq == <<"free", "paid">>
PageSeq == <<"NextSong", "Home">>
SongSeq == <<"S1", "Song A", Null>>

\* UTC offsets (hours) the process-local timezone may have; with -6 both
\* timestamps fall on the local day before their UTC day
TzOffsetHours == {-6}

Range(s) == {s[i] : i \in DOMAIN s}

\* Catalog records: song S1 of artist A1 under two titles, song S1 of
\* artist A2 and song S2 of artist A1.
CatalogRecords ==
    {r \in [song_id : Range(SongIdSeq), artist_id : Range(ArtistIdSeq),
            title : Range(TitleSeq), year : {2000}, duration : {200},
            artist_name : {"Artist"}] :
        /\ r.song_id = "S2" => r.artist_id = "A1"
        /\ r.title = "Song B" => (r.song_id = "S1" /\ r.artist_id = "A1")}

\* Log records: a NextSong event names a song that is (S1) or is not
\* (Song A) the text of a song_id; user 8 is seen at both levels; the one
\* event of another page carries no song, a user and a ts.
LogRecords ==
    {r \in [page : Range(PageSeq), song : Range(SongSeq), ts : Range(TsSeq),
            userId : Range(UserIdSeq), level : Range(LevelSeq)] :
        /\ r.page = "NextSong" => r.song # Null
        /\ r.page = "NextSong" => ~(r.song = "S1" /\ r.ts = Ts2)
        /\ r.page = "NextSong" => ~(r.userId = 9 /\ r.level = "paid")
        /\ r.page = "Home" =>
              (r.song = Null /\ r.ts = Ts2 /\ r.userId = 9 /\ r.level = "free")}

\* The position of a record in a source affects no step, so each source is
\* taken in one canonical order.
CatalogRank(r) ==
    (IndexIn(TitleSeq, r.title) * 10 + IndexIn(SongIdSeq, r.song_id)) * 10
        + IndexIn(ArtistIdSeq, r.artist_id)
LogRank(r) ==
    (((IndexIn(PageSeq, r.page) * 10 + IndexIn(SongSeq, r.song)) * 10
        + IndexIn(TsSeq, r.ts)) * 10 + IndexIn(LevelSeq, r.level)) * 10
        + IndexIn(UserIdSeq, r.userId)

SeqsUpTo(S, n) == UNION {[1..k -> S] : k \in 0..n}

CatalogSources ==
    {s \in SeqsUpTo(CatalogRecords, MaxCat) :
        \A i \in 1..(Len(s) - 1) : CatalogRank(s[i]) <= CatalogRank(s[i + 1])}

LogSources ==
    {s \in SeqsUpTo(LogRecords, MaxLog) :
        \A i \in 1..(Len(s) - 1) : LogRank(s[i]) <= LogRank(s[i + 1])}

\* ------------------------------------------------- DataFrame operations
\* the rows of s at the positions in I, in the order of s
Pick(s, I) ==
    LET F[i \in 0..Len(s)] ==
            IF i = 0 THEN <<>>
            ELSE IF i \in I THEN Append(F[i-1], s[i]) ELSE F[i-1]
    IN  F[Len(s)]

RECURSIVE Flatten(_)
Flatten(ss) == IF ss = <<>> THEN <<>> ELSE Head(ss) \o Flatten(Tail(ss))

\* SQL equality used as a join predicate: null equals nothing
SqlEq(a, b) == a # Null /\ b # Null /\ a = b

\* DataFrame.where(cond): the rows of s whose condition, given per row by
\* the sequence cond, is true
Where(s, cond) == Pick(s, {i \in DOMAIN s : cond[i]})

\* DataFrame.dropDuplicates(subset): every outcome Spark may produce, one
\* retained row per key value, which one being unspecified.  key gives the
\* subset columns of each row of s.
DropDuplicatesNoop(s, key) == {s}
DropDuplicates(s, key) ==
    LET keys == Range(key)
        choices == {f \in [keys -> DOMAIN s] : \A k \in keys : key[f[k]] = k}
    IN  {Pick(s, {f[k] : k \in keys}) : f \in choices}

\* DataFrame.orderBy(col): ascending by the rank of each row's column
\* value, ties in input order
OrderBy(s, rank) ==
    LET pos(i) == 1 + Cardinality({j \in DOMAIN s :
                        \/ rank[j] < rank[i]
                        \/ rank[j] = rank[i] /\ j < i})
    IN  [k \in DOMAIN s |-> s[CHOOSE i \in DOMAIN s : pos(i) = k]]

\* DataFrameWriter.mode("overwrite").parquet(path): the destination holds
\* exactly the new rows afterwards
WriteAppend(old, new) == old \o new
WriteOverwrite(old, new) == new

\* ------------------------------------------------------ calendar fields
\* datetime.fromtimestamp(x/1000): the local wall-clock time of the epoch
\* value, as <<local seconds since 1970-01-01 00:00 local, microseconds>>
get_timestamp_utc(ts, tzh) == <<ts[1], ts[2] * 1000>>
get_timestamp(ts, tzh) == <<ts[1] + tzh * 3600, ts[2] * 1000>>

\* days since 1970-01-01 -> <<year, month, day>> (proleptic Gregorian)
CivilFromDays(days) ==
    LET z == days + 719468
        era == z \div 146097
        doe == z - era * 146097
        yoe == (doe - doe \div 1460 + doe \div 36524 - doe \div 146096) \div 365
        doy == doe - (365 * yoe + yoe \div 4 - yoe \div 100)
        mp == (5 * doy + 2) \div 153
        d == doy - (153 * mp + 2) \div 5 + 1
        m == IF mp < 10 THEN mp + 3 ELSE mp - 9
        y == yoe + era * 400 + (IF m <= 2 THEN 1 ELSE 0)
    IN  <<y, m, d>>

\* hour(datetime)
HourOf(dt) == (dt[1] % 86400) \div 3600

\* date_format(datetime, "y" | "M" | "d"): the field as an unpadded string
DateFormat(dt, pattern) ==
    LET ymd == CivilFromDays(dt[1] \div 86400)
    IN  CASE pattern = "y" -> ToString(ymd[1])
          [] pattern = "M" -> ToString(ymd[2])
          [] pattern = "d" -> ToString(ymd[3])

\* the withColumn chain building one time_table row from a ts
TimeRow(ts, tzh) ==
    LET datetime == get_timestamp(ts, tzh)
    IN  [ts |-> ts, datetime |-> datetime, hour |-> HourOf(datetime),
         year |-> DateFormat(datetime, "y"),
         month |-> DateFormat(datetime, "M"),
         day |-> DateFormat(datetime, "d")]

\* --------------------------------------------------------------- state
VARIABLES
    catalog,        \* records of the catalog source (song_data path)
    log,            \* records of the log source (log_data path)
    tz,             \* UTC offset in hours of the process-local timezone
    run,            \* 1 in the first invocation of main(), 2 in the re-run
    phase,          \* index into MainOrder of the function executing
    pc,             \* the statement group to execute next
    cause,          \* why the run aborted, "none" while it has not
    song_data,      \* process_song_data's df
    df,             \* process_log_data's df (after the NextSong filter)
    time_table,     \* process_log_data's time_table
    song_df,        \* songs.parquet as read back: [run, rows]
    songplays_all_columns,  \* the left join with its idx column
    tables,         \* the five parquet destinations: name -> [run, rows]
    prev            \* rows of the five tables after the previous run, if
                    \* it completed, else NoPrev

vars == <<catalog, log, tz, run, phase, pc, cause, song_data, df, time_table,
          song_df, songplays_all_columns, tables, prev>>

TableNames == {"songs", "artists", "users", "time", "songplays"}
NoPrev == [t \in TableNames |-> <<"absent">>]
NotRead == [run |-> 0, rows |-> <<>>]

\* main(): process_song_data(...) then process_log_data(...)
MainOrderSwapped == <<"process_log_data", "process_song_data">>
MainOrder == <<"process_song_data", "process_log_data">>

Entry(f) == IF f = "process_song_data" THEN "song_read" ELSE "log_read"

\* the statement after the return of the function at position ph of main
AfterReturn(ph) ==
    IF ph < Len(MainOrder) THEN Entry(MainOrder[ph + 1]) ELSE "done"

Init ==
    /\ catalog \in CatalogSources
    /\ log \in LogSources
    /\ tz \in TzOffsetHours
    /\ run = 1
    /\ phase = 1
    /\ pc = Entry(MainOrder[1])
    /\ cause = "none"
    /\ song_data = <<>>
    /\ df = <<>>
    /\ time_table = <<>>
    /\ song_df = NotRead
    /\ songplays_all_columns = <<>>
    /\ tables = [t \in TableNames |-> [run |-> 0, rows |-> <<>>]]
    /\ prev = NoPrev

Abort(why) ==
    /\ pc' = "aborted"
    /\ cause' = why

Write(t, rows) ==
    tables' = [tables EXCEPT
                 ![t] = [run |-> run, rows |-> WriteOverwrite(@.rows, rows)]]

\* ---------------------------------------------------- process_song_data
\* df.select('song_id','artist_id','title','year','duration')
SelectSongCols(d) ==
    [i \in DOMAIN d |->
        [song_id |-> d[i].song_id, artist_id |-> d[i].artist_id,
         title |-> d[i].title, year |-> d[i].year,
         duration |-> d[i].duration]]

\* subset=["song_id","artist_id"]
SongKeyWithTitle(d) ==
    [i \in DOMAIN d |-> <<d[i].song_id, d[i].artist_id, d[i].title>>]
SongKey(d) == [i \in DOMAIN d |-> <<d[i].song_id, d[i].artist_id>>]

\* df.select('artist_id','artist_name',...)
SelectArtistCols(d) ==
    [i \in DOMAIN d |->
        [artist_id |-> d[i].artist_id, artist_name |-> d[i].artist_name]]

\* subset=["artist_id"]
ArtistKey(d) == [i \in DOMAIN d |-> d[i].artist_id]

\* the position of each row's artist_id in ascending order
ArtistRank(d) == [i \in DOMAIN d |-> IndexIn(ArtistIdSeq, d[i].artist_id)]

\* df = spark.read.json(song_data, schema): fails when the path cannot be read
ReadSongData ==
    /\ pc = "song_read"
    /\ \E ok \in BOOLEAN :
         IF ok
         THEN /\ song_data' = catalog
              /\ pc' = "songs_write"
              /\ UNCHANGED cause
         ELSE /\ Abort("read_song")
              /\ UNCHANGED song_data
    /\ UNCHANGED <<catalog, log, tz, run, phase, df, time_table, song_df,
                   songplays_all_columns, tables, prev>>

\* songs_table: select, dropDuplicates on (song_id, artist_id), overwrite
WriteSongs ==
    /\ pc = "songs_write"
    /\ LET selected == SelectSongCols(song_data)
       IN  \E songs_table \in DropDuplicates(selected, SongKey(selected)) :
              Write("songs", songs_table)
    /\ pc' = "artists_write"
    /\ UNCHANGED <<catalog, log, tz, run, phase, cause, song_data, df,
                   time_table, song_df, songplays_all_columns, prev>>

\* artists_table: select, orderBy, dropDuplicates on artist_id, overwrite;
\* process_song_data returns
WriteArtists ==
    /\ pc = "artists_write"
    /\ LET selected == SelectArtistCols(song_data)
           ordered == OrderBy(selected, ArtistRank(selected))
       IN  \E artists_table \in DropDuplicates(ordered, ArtistKey(ordered)) :
              Write("artists", artists_table)
    /\ pc' = AfterReturn(phase)
    /\ phase' = phase + 1
    /\ UNCHANGED <<catalog, log, tz, run, cause, song_data, df,
                   time_table, song_df, songplays_all_columns, prev>>

\* ----------------------------------------------------- process_log_data
\* df.page == 'NextSong'
AnyPage(d) == [i \in DOMAIN d |-> TRUE]
IsNextSong(d) == [i \in DOMAIN d |-> d[i].page = "NextSong"]

\* df.select('userId', 'firstName', 'lastName', 'gender', 'level')
SelectUserCols(d) ==
    [i \in DOMAIN d |-> [userId |-> d[i].userId, level |-> d[i].level]]

\* subset=['userId']
UserKeyWithLevel(d) == [i \in DOMAIN d |-> <<d[i].userId, d[i].level>>]
UserKey(d) == [i \in DOMAIN d |-> d[i].userId]

\* df.select('ts'), and all its columns as the dropDuplicates key
SelectTs(d) == [i \in DOMAIN d |-> [ts |-> d[i].ts]]
TsKey(d) == [i \in DOMAIN d |-> d[i].ts]

\* partition indexes monotonically_increasing_id() may put in the high bits
Partitions == {0, 1}

\* df = spark.read.json(log_data, schema); df = df.where(page == 'NextSong')
ReadLogData ==
    /\ pc = "log_read"
    /\ \E ok \in BOOLEAN :
         IF ok
         THEN /\ df' = Where(log, IsNextSong(log))
              /\ pc' = "users_write"
              /\ UNCHANGED cause
         ELSE /\ Abort("read_log")
              /\ UNCHANGED df
    /\ UNCHANGED <<catalog, log, tz, run, phase, song_data, time_table,
                   song_df, songplays_all_columns, tables, prev>>

\* users_table: select, dropDuplicates on userId, overwrite
WriteUsers ==
    /\ pc = "users_write"
    /\ LET selected == SelectUserCols(df)
       IN  \E users_table \in DropDuplicates(selected, UserKey(selected)) :
              Write("users", users_table)
    /\ pc' = "time_write"
    /\ UNCHANGED <<catalog, log, tz, run, phase, cause, song_data, df,
                   time_table, song_df, songplays_all_columns, prev>>

\* time_table: select ts, dropDuplicates, derive the calendar columns,
\* overwrite
WriteTime ==
    /\ pc = "time_write"
    /\ LET selected == SelectTs(df)
       IN  \E distinct_ts \in DropDuplicates(selected, TsKey(selected)) :
              /\ time_table' = [i \in DOMAIN distinct_ts |->
                                   TimeRow(distinct_ts[i].ts, tz)]
              /\ Write("time", time_table')
    /\ pc' = "song_df_read"
    /\ UNCHANGED <<catalog, log, tz, run, phase, cause, song_data, df,
                   song_df, songplays_all_columns, prev>>

\* song_df = spark.read.parquet(songs.parquet).  The read fails when the
\* destination was never written.  A partitioned write of zero rows leaves
\* no data file, and reading such a directory either fails (the schema
\* cannot be inferred) or yields no rows, depending on the engine.
ReadSongs ==
    /\ pc = "song_df_read"
    /\ \/ /\ tables["songs"].run = 0
          /\ Abort("songs_missing")
          /\ UNCHANGED song_df
       \/ /\ tables["songs"].run # 0
          /\ tables["songs"].rows = <<>>
          /\ Abort("songs_empty")
          /\ UNCHANGED song_df
       \/ /\ tables["songs"].run # 0
          /\ song_df' = tables["songs"]
          /\ pc' = "songplays_write"
          /\ UNCHANGED cause
    /\ UNCHANGED <<catalog, log, tz, run, phase, song_data, df, time_table,
                   songplays_all_columns, tables, prev>>

\* the song columns of an unmatched left row
NoSong == [song_id |-> Null, artist_id |-> Null, title |-> Null]

\* one output row of df.join(song_df, ...): the log columns, then the song
\* columns
JoinedRow(e, s) ==
    [page |-> e.page, song |-> e.song, ts |-> e.ts, userId |-> e.userId,
     level |-> e.level, song_id |-> s.song_id, artist_id |-> s.artist_id,
     title |-> s.title]

\* the join predicate df.song == song_df.song_id
JoinOnTitle(e, s) == SqlEq(e.song, s.title)
JoinCond(e, s) == SqlEq(e.song, s.song_id)

\* df.join(song_df, df.song == song_df.song_id, 'left')
InnerJoinSongs(left, right) ==
    Flatten([i \in DOMAIN left |->
        LET Match(s) == JoinCond(left[i], s)
            m == SelectSeq(right, Match)
        IN  [j \in DOMAIN m |-> JoinedRow(left[i], m[j])]])
LeftJoinSongs(left, right) ==
    Flatten([i \in DOMAIN left |->
        LET Match(s) == JoinCond(left[i], s)
            m == SelectSeq(right, Match)
        IN  IF m = <<>> THEN <<JoinedRow(left[i], NoSong)>>
            ELSE [j \in DOMAIN m |-> JoinedRow(left[i], m[j])]])

\* withColumn("idx", monotonically_increasing_id()) with all rows in
\* partition p
WithIdx(rows, p) ==
    [i \in DOMAIN rows |->
        [page |-> rows[i].page, song |-> rows[i].song, ts |-> rows[i].ts,
         userId |-> rows[i].userId, level |-> rows[i].level,
         song_id |-> rows[i].song_id, artist_id |-> rows[i].artist_id,
         title |-> rows[i].title, idx |-> <<p, i - 1>>]]

\* the select with aliases that builds songplays
SelectSongplayCols(d) ==
    [i \in DOMAIN d |->
        [songplay_id |-> d[i].idx, start_time |-> d[i].ts,
         user_id |-> d[i].userId, level |-> d[i].level,
         song_id |-> d[i].song_id, artist_id |-> d[i].artist_id]]

\* songplays.join(time_table, start_time == ts, 'inner').select(...)
JoinTime(songplays, time) ==
    Flatten([i \in DOMAIN songplays |->
        LET Match(t) == songplays[i].start_time = t.ts
            m == SelectSeq(time, Match)
        IN  [j \in DOMAIN m |->
               [songplay_id |-> songplays[i].songplay_id,
                start_time |-> songplays[i].start_time,
                user_id |-> songplays[i].user_id,
                level |-> songplays[i].level,
                song_id |-> songplays[i].song_id,
                artist_id |-> songplays[i].artist_id,
                year |-> m[j].year, month |-> m[j].month]]])

\* the songplays assembly and its overwrite; process_log_data returns
WriteSongplays ==
    /\ pc = "songplays_write"
    /\ \E p \in Partitions :
         /\ songplays_all_columns' =
                WithIdx(LeftJoinSongs(df, song_df.rows), p)
         /\ Write("songplays",
                  JoinTime(SelectSongplayCols(songplays_all_columns'),
                           time_table))
    /\ pc' = AfterReturn(phase)
    /\ phase' = phase + 1
    /\ UNCHANGED <<catalog, log, tz, run, cause, song_data, df, time_table,
                   song_df, prev>>

\* ------------------------------------------------------------------ main
\* after a completed first run the script is started once more on the same
\* sources and the same output root
StartRun ==
    /\ pc = "done"
    /\ run = 1
    /\ run' = run + 1
    /\ prev' = IF pc = "done" THEN [t \in TableNames |-> tables[t].rows]
               ELSE NoPrev
    /\ phase' = 1
    /\ pc' = Entry(MainOrder[1])
    /\ cause' = "none"
    /\ song_data' = <<>>
    /\ df' = <<>>
    /\ time_table' = <<>>
    /\ song_df' = NotRead
    /\ songplays_all_columns' = <<>>
    /\ UNCHANGED <<catalog, log, tz, tables>>

Next ==
    \/ ReadSongData
    \/ WriteSongs
    \/ WriteArtists
    \/ ReadLogData
    \/ WriteUsers
    \/ WriteTime
    \/ ReadSongs
    \/ WriteSongplays
    \/ StartRun

Spec == Init /\ [][Next]_vars

\* ------------------------------------------------------------ properties
Rows(t) == tables[t].rows
Completed == pc = "done"
IsPlay(r) == r.page = "NextSong"
NextSongEvents == SelectSeq(log, IsPlay)

\* the scenario of the specification's end-to-end example
ScenarioCatalog ==
    <<[song_id |-> "S1", artist_id |-> "A1", title |-> "Song A",
       year |-> 2000, duration |-> 200, artist_name |-> "Artist"]>>
ScenarioLog ==
    <<[page |-> "NextSong", song |-> "Song A", ts |-> Ts1, userId |-> 8,
       level |-> "free"]>>
Scenario == catalog = ScenarioCatalog /\ log = ScenarioLog

\* C1 as stated: in the one-song, one-event scenario a complete run leaves
\* 1 row in each of songs, artists, users and time, and 0 rows in songplays.
C1_AsStated ==
    (Scenario /\ Completed) =>
        /\ Len(Rows("songs")) = 1
        /\ Len(Rows("artists")) = 1
        /\ Len(Rows("users")) = 1
        /\ Len(Rows("time")) = 1
        /\ Len(Rows("songplays")) = 0

\* C1 as amended: in the scenario a complete run leaves 1 row in each of
\* songs, artists, users and time (year 2018, month 11), and 1 row in
\* songplays, the unmatched event kept by the left join with null song_id
\* and artist_id.
C1_Scenario ==
    (Scenario /\ Completed) =>
        /\ Len(Rows("songs")) = 1
        /\ Len(Rows("artists")) = 1
        /\ Len(Rows("users")) = 1
        /\ Len(Rows("time")) = 1
        /\ Rows("time")[1].year = "2018"
        /\ Rows("time")[1].month = "11"
        /\ Len(Rows("songplays")) = 1
        /\ Rows("songplays")[1].song_id = Null
        /\ Rows("songplays")[1].artist_id = Null
        /\ Rows("songplays")[1].start_time = Ts1
        /\ Rows("songplays")[1].user_id = 8

C1_Witness == Scenario /\ Completed /\ Len(Rows("songplays")) = 1

ReadAborted == pc = "aborted" /\ cause \in {"read_song", "read_log"}

\* C2 as stated: a run aborted by a read error of either source has written
\* none of the five tables.
C2_AsStated ==
    ReadAborted => \A t \in TableNames : tables[t].run # run

\* C2 as amended: a run aborted by the read of the catalog source has
\* written none of the five tables; a run aborted by the read of the log
\* source has written none of users, time and songplays, and has already
\* written songs and artists.
C2_ReadAbort ==
    /\ (pc = "aborted" /\ cause = "read_song") =>
          \A t \in TableNames : tables[t].run # run
    /\ (pc = "aborted" /\ cause = "read_log") =>
          /\ \A t \in {"users", "time", "songplays"} : tables[t].run # run
          /\ \A t \in {"songs", "artists"} : tables[t].run = run

C2_Witness ==
    /\ pc = "aborted" /\ cause = "read_log" /\ run = 2
    /\ Rows("users") # <<>>

\* C3: after a complete run every songplays row comes from a NextSong log
\* event, and its start_time is the ts of a row of the time table written
\* by the same run.
C3_SongplaysSubset ==
    Completed =>
        \A i \in DOMAIN Rows("songplays") :
            LET r == Rows("songplays")[i]
            IN  /\ \E j \in DOMAIN log :
                      /\ log[j].page = "NextSong"
                      /\ log[j].ts = r.start_time
                      /\ log[j].userId = r.user_id
                      /\ log[j].level = r.level
                /\ tables["time"].run = run
                /\ \E k \in DOMAIN Rows("time") :
                      Rows("time")[k].ts = r.start_time

C3_Witness ==
    /\ Completed
    /\ Rows("songplays") # <<>>
    /\ \E j \in DOMAIN log : log[j].page # "NextSong"

\* the number of rows of s that carry the event columns of e
EventCount(s, e) ==
    Cardinality({i \in DOMAIN s :
        /\ s[i].start_time = e.ts
        /\ s[i].user_id = e.userId
        /\ s[i].level = e.level})

\* C4: each NextSong event contributes exactly one songplays row (its ts is
\* always in the time table): for every event, the songplays rows carrying
\* its columns are as many as the NextSong events carrying them.
C4_OneRowPerEvent ==
    Completed =>
        \A j \in DOMAIN NextSongEvents :
            LET e == NextSongEvents[j]
            IN  EventCount(Rows("songplays"), e) =
                    Cardinality({k \in DOMAIN NextSongEvents :
                        /\ NextSongEvents[k].ts = e.ts
                        /\ NextSongEvents[k].userId = e.userId
                        /\ NextSongEvents[k].level = e.level})

C4_Witness ==
    /\ Completed
    /\ Len(NextSongEvents) = 2
    /\ Len(Rows("songplays")) = 2

LogLabels == {"log_read", "users_write", "time_write", "song_df_read",
              "songplays_write"}

\* C5: process_log_data starts only after process_song_data has written
\* songs (and artists) in the same run, and the songs table the songplays
\* join reads is the one written by the current run, never a missing one and
\* never an earlier run's.
C5_SongsWrittenBeforeJoin ==
    /\ pc \in LogLabels =>
          /\ tables["songs"].run = run
          /\ tables["artists"].run = run
    /\ song_df # NotRead =>
          /\ song_df.run = run
          /\ song_df.rows = Rows("songs")
    /\ cause # "songs_missing"

C5_Witness ==
    /\ run = 2
    /\ pc = "songplays_write"
    /\ song_df.run = 2
    /\ song_df.rows # <<>>

\* two DataFrames hold the same rows, each the same number of times
SameRows(a, b) ==
    \A r \in Range(a) \cup Range(b) :
        Cardinality({i \in DOMAIN a : a[i] = r}) =
            Cardinality({i \in DOMAIN b : b[i] = r})

SecondRunCompleted == run = 2 /\ Completed

\* C6 as stated: after two consecutive complete runs on the same sources
\* each of the five tables holds the same rows as after the first run.
C6_AsStated ==
    SecondRunCompleted => \A t \in TableNames : SameRows(Rows(t), prev[t])

\* the songplays rows without their songplay_id
WithoutId(d) ==
    [i \in DOMAIN d |->
        [start_time |-> d[i].start_time, user_id |-> d[i].user_id,
         level |-> d[i].level, song_id |-> d[i].song_id,
         artist_id |-> d[i].artist_id, year |-> d[i].year,
         month |-> d[i].month]]

\* the key columns of the dimension tables
SongPairs(d) == [i \in DOMAIN d |-> <<d[i].song_id, d[i].artist_id>>]
ArtistIdsOf(d) == [i \in DOMAIN d |-> d[i].artist_id]
UserIdsOf(d) == [i \in DOMAIN d |-> d[i].userId]

\* C6 as amended: after two consecutive complete runs on the same sources
\* every table has been rewritten by the second run and holds as many rows
\* as after the first run, with the same keys: the same (song_id, artist_id)
\* pairs in songs, the same artist_id values in artists, the same userId
\* values in users, the same rows in time, and the same songplays rows up to
\* songplay_id.  The non-key columns of a row retained by dropDuplicates and
\* the songplay_id values may differ between the runs.
C6_RerunSameKeys ==
    SecondRunCompleted =>
        /\ \A t \in TableNames :
              /\ tables[t].run = run
              /\ Len(Rows(t)) = Len(prev[t])
        /\ SameRows(SongPairs(Rows("songs")), SongPairs(prev["songs"]))
        /\ SameRows(ArtistIdsOf(Rows("artists")), ArtistIdsOf(prev["artists"]))
        /\ SameRows(UserIdsOf(Rows("users")), UserIdsOf(prev["users"]))
        /\ SameRows(Rows("time"), prev["time"])
        /\ SameRows(WithoutId(Rows("songplays")), WithoutId(prev["songplays"]))

C6_Witness ==
    /\ SecondRunCompleted
    /\ ~SameRows(Rows("songs"), prev["songs"])
    /\ Rows("songplays") # <<>>

\* C7: after a complete run every songplays row has song_id and artist_id
\* both null or carries the (song_id, artist_id) of a row of the songs table
\* written by the same run; the row (identified by its songplay_id in the
\* joined data) has a song_id exactly when the event's song text is the
\* song_id of some songs row, and that song_id is then the song text.
C7_ReferentialIntegrity ==
    Completed =>
        /\ tables["songs"].run = run
        /\ \A i \in DOMAIN Rows("songplays") :
              LET r == Rows("songplays")[i]
              IN  /\ \/ r.song_id = Null /\ r.artist_id = Null
                     \/ \E k \in DOMAIN Rows("songs") :
                           /\ Rows("songs")[k].song_id = r.song_id
                           /\ Rows("songs")[k].artist_id = r.artist_id
                  /\ \E j \in DOMAIN songplays_all_columns :
                        LET a == songplays_all_columns[j]
                        IN  /\ a.idx = r.songplay_id
                            /\ a.song_id = r.song_id
                            /\ a.song_id # Null <=>
                                  \E k \in DOMAIN Rows("songs") :
                                      Rows("songs")[k].song_id = a.song
                            /\ a.song_id # Null => a.song_id = a.song

C7_Witness ==
    /\ Completed
    /\ \E i \in DOMAIN Rows("songplays") : Rows("songplays")[i].song_id # Null
    /\ \E i \in DOMAIN Rows("songplays") : Rows("songplays")[i].song_id = Null

\* C8: the users table written by a run has exactly one row for each userId
\* that occurs in a NextSong event and none for any other userId, and each
\* row carries the columns of one of that user's NextSong events.
C8_UsersOnePerUserId ==
    tables["users"].run = run =>
        /\ \A u \in Range(UserIdSeq) :
              Cardinality({i \in DOMAIN Rows("users") :
                              Rows("users")[i].userId = u}) =
                      IF \E j \in DOMAIN NextSongEvents :
                             NextSongEvents[j].userId = u
                      THEN 1 ELSE 0
        /\ \A i \in DOMAIN Rows("users") :
              \E j \in DOMAIN NextSongEvents :
                  /\ Rows("users")[i].userId = NextSongEvents[j].userId
                  /\ Rows("users")[i].level = NextSongEvents[j].level

C8_Witness ==
    /\ Completed
    /\ Len(Rows("users")) = 1
    /\ \E i, j \in DOMAIN NextSongEvents :
          /\ NextSongEvents[i].userId = NextSongEvents[j].userId
          /\ NextSongEvents[i].level # NextSongEvents[j].level

\* no two entries of the key column are equal
Unique(key) == \A i, j \in DOMAIN key : key[i] = key[j] => i = j

\* C9: the tables written by a run have unique keys: no two songs rows share
\* (song_id, artist_id), artists has exactly one row per artist_id of the
\* catalog and no other, no two users rows share a userId and no two time
\* rows share a ts.
C9_UniqueKeys ==
    /\ tables["songs"].run = run =>
          /\ Unique(SongPairs(Rows("songs")))
          /\ Range(SongPairs(Rows("songs"))) = Range(SongPairs(catalog))
    /\ tables["artists"].run = run =>
          \A a \in Range(ArtistIdSeq) :
              Cardinality({i \in DOMAIN Rows("artists") :
                              Rows("artists")[i].artist_id = a}) =
                      IF \E j \in DOMAIN catalog : catalog[j].artist_id = a
                      THEN 1 ELSE 0
    /\ tables["users"].run = run => Unique(UserIdsOf(Rows("users")))
    /\ tables["time"].run = run =>
          Unique([i \in DOMAIN Rows("time") |-> Rows("time")[i].ts])

C9_Witness ==
    /\ Completed
    /\ Len(catalog) = 2
    /\ Len(Rows("songs")) = 1
    /\ Len(Rows("artists")) = 1

\* <<year, month, day>> -> days since 1970-01-01 (proleptic Gregorian)
DaysFromCivil(y, m, d) ==
    LET yy == IF m <= 2 THEN y - 1 ELSE y
        era == yy \div 400
        yoe == yy - era * 400
        mp == IF m > 2 THEN m - 3 ELSE m + 9
        doy == (153 * mp + 2) \div 5 + d - 1
        doe == yoe * 365 + yoe \div 4 - yoe \div 100 + doy
    IN  era * 146097 + doe - 719468

\* C10: the time table written by a run has exactly one row for each ts
\* that occurs in a NextSong event and none for any other ts, and the
\* year, month, day and hour of a row are those of the local wall-clock
\* hour that contains ts taken as epoch milliseconds.
C10_TimeOnePerTs ==
    tables["time"].run = run =>
        /\ \A t \in Range(TsSeq) :
              Cardinality({i \in DOMAIN Rows("time") :
                              Rows("time")[i].ts = t}) =
                      IF \E j \in DOMAIN NextSongEvents :
                             NextSongEvents[j].ts = t
                      THEN 1 ELSE 0
        /\ \A i \in DOMAIN Rows("time") :
              LET r == Rows("time")[i]
                  local == r.ts[1] + tz * 3600
              IN  \E y \in 2017..2019 :
                     /\ r.year = ToString(y)
                     /\ \E m \in 1..12 :
                           /\ r.month = ToString(m)
                           /\ \E d \in 1..31 :
                                 /\ r.day = ToString(d)
                                 /\ r.hour \in 0..23
                                 /\ LET start ==
                                          DaysFromCivil(y, m, d) * 86400
                                              + r.hour * 3600
                                    IN  start <= local /\ local < start + 3600

C10_Witness ==
    /\ Completed
    /\ Len(NextSongEvents) = 2
    /\ Len(Rows("time")) = 1
    /\ Rows("time")[1].day = "1"
    /\ Rows("time")[1].hour = 19

====
